---- MODULE Spec2Model ----
(***************************************************************************)
(* A model of the go-mlflow experiment client: the Tags list, the          *)
(* Experiment entity and the client's CreateExperiment, GetExperiment and  *)
(* DeleteExperiment, run against a remote tracking service.                *)
(*                                                                         *)
(* Go strings that the code takes apart (names, namespaces, tag values)    *)
(* are sequences of one-character strings; strings that are only compared  *)
(* (tag keys, identifiers, paths) are TLA+ strings.  A Go slice of Tag is  *)
(* a record [nil, elems]: a nil slice and an empty non-nil slice have the  *)
(* same elements and differ under reflect.DeepEqual.                       *)
(***************************************************************************)
EXTENDS Integers, Sequences, FiniteSets, TLC

VARIABLES
    procs,       \* the goroutines that call the client
    experiment,  \* experiment[g]: the *Experiment goroutine g passes to the client
    c,           \* the client struct: address, httpClient, authenticator
    store,       \* the remote service: experiment id -> stored experiment
    call,        \* call[g]: the call g is in, or the one that returned last
    pc,          \* pc[g]: g's position inside the call
    callsLeft,   \* client calls the scenario may still start
    t,           \* a Tags value on which Set is exercised directly
    t0,          \* the value of t before any Set
    sets,        \* the Set calls applied to t, oldest first: <<key, value>>
    created      \* history: id -> the Name the caller gave CreateExperiment

vars == <<procs, experiment, c, store, call, pc, callsLeft, t, t0, sets, created>>

clientVars == <<procs, experiment, c, store, call, pc, callsLeft, created>>
tagVars == <<t, t0, sets>>

----------------------------------------------------------------------------
(* Bounds *)

\* client calls started in one behaviour
MaxCalls == 2
\* direct Set calls applied to t in one behaviour
MaxSets == 2
\* length of the Tags sequences t starts from
MaxTags == 2

----------------------------------------------------------------------------
(* Strings *)

\* strings.HasPrefix(s, prefix)
HasPrefix(s, prefix) ==
    /\ Len(s) >= Len(prefix)
    /\ SubSeq(s, 1, Len(prefix)) = prefix

\* TrimPrefix that removes nothing
TrimPrefixNone(s, prefix) == s

\* strings.TrimPrefix(s, prefix)
TrimPrefix(s, prefix) ==
    IF HasPrefix(s, prefix) THEN SubSeq(s, Len(prefix) + 1, Len(s)) ELSE s

\* Sprintf with its two arguments in the wrong order
SprintfNameSwapped(namespace, name) == name \o <<"/">> \o namespace

\* fmt.Sprintf("%s/%s", namespace, name)
SprintfName(namespace, name) == namespace \o <<"/">> \o name

\* fmt.Sprintf("%s/", namespace)
SprintfPrefix(namespace) == namespace \o <<"/">>

\* the namespace used when the option is absent or empty
DefaultNamespace == <<"d", "e", "f", "a", "u", "l", "t">>

\* the reserved tag key
NamespaceKey == "metadata.namespace"

----------------------------------------------------------------------------
(* Tags *)

Tag(k, v) == [Key |-> k, Value |-> v]

\* the nil slice, the zero value of Tags
NilTags == [nil |-> TRUE, elems |-> <<>>]

\* a non-nil slice holding elems
MakeTags(elems) == [nil |-> FALSE, elems |-> elems]

\* index of the first Tag with the key, 0 when there is none
RECURSIVE FirstIndexFrom(_, _, _)
FirstIndexFrom(elems, key, i) ==
    IF i > Len(elems) THEN 0
    ELSE IF elems[i].Key = key THEN i
    ELSE FirstIndexFrom(elems, key, i + 1)

FirstIndex(elems, key) == FirstIndexFrom(elems, key, 1)

\* (t *Tags) Contains(key)
TagsContains(tags, key) == FirstIndex(tags.elems, key) # 0

\* (t *Tags) Get(key)
TagsGet(tags, key) ==
    LET i == FirstIndex(tags.elems, key)
    IN  IF i # 0 THEN tags.elems[i].Value ELSE <<>>

\* Set without the search for the key: it always appends
TagsSetAlwaysAppend(tags, key, value) ==
    MakeTags(Append(tags.elems, Tag(key, value)))

\* (t *Tags) Set(key, value): the slice t points at after the call
TagsSet(tags, key, value) ==
    LET i == FirstIndex(tags.elems, key)
    IN  IF i # 0
        THEN [tags EXCEPT !.elems[i].Value = value]
        ELSE MakeTags(Append(tags.elems, Tag(key, value)))

\* the caller's slice after Set was applied to a copy of its slice header
\* (in.Tags = experiment.Tags; in.Tags.Set(...)): a replaced value is written
\* into the shared backing array, an appended Tag lies beyond the caller's
\* length and is not seen by it
TagsAfterAliasedSet(tags, key, value) ==
    IF TagsContains(tags, key) THEN TagsSet(tags, key, value) ELSE tags

----------------------------------------------------------------------------
(* Experiment *)

\* Experiment{}: the zero value
EmptyExperiment ==
    [ExperimentID |-> "", Name |-> <<>>, ArtifactLocation |-> "",
     CreationTime |-> 0, LastUpdatedTime |-> 0, LifecycleStage |-> "",
     Tags |-> NilTags]

\* (e *Experiment) DeepCopyInto(out): the value of *out after the call
DeepCopyInto(e) == [e EXCEPT !.Tags = MakeTags(e.Tags.elems)]

\* reflect.DeepEqual on two Experiment values, as assert.Equal applies it:
\* a nil slice and an empty non-nil slice are not deeply equal
DeepEqual(a, b) == a = b

----------------------------------------------------------------------------
(* Options *)

\* InNamespace(ns)
InNamespace(ns) == [kind |-> "InNamespace", ns |-> ns, b |-> FALSE]

\* IgnoreMissing(b)
IgnoreMissing(b) == [kind |-> "IgnoreMissing", ns |-> <<>>, b |-> b]

\* &CreateOptions{}, &GetOptions{}, &DeleteOptions{}
ZeroOptions == [Namespace |-> <<>>, IgnoreMissing |-> FALSE]

\* InNamespace.ApplyToCreate
ApplyToCreate(f, o) ==
    IF f.kind = "InNamespace" THEN [o EXCEPT !.Namespace = f.ns] ELSE o

\* InNamespace.ApplyToGet
ApplyToGet(f, o) ==
    IF f.kind = "InNamespace" THEN [o EXCEPT !.Namespace = f.ns] ELSE o

\* InNamespace.ApplyToDelete (empty body) and IgnoreMissing.ApplyToDelete
ApplyToDelete(f, o) ==
    IF f.kind = "IgnoreMissing" THEN [o EXCEPT !.IgnoreMissing = f.b] ELSE o

\* for _, f := range opts { f.ApplyTo...(o) }
RECURSIVE ApplyAll(_, _, _)
ApplyAll(op, opts, o) ==
    IF opts = <<>> THEN o
    ELSE LET f == Head(opts)
             o1 == CASE op = "CreateExperiment" -> ApplyToCreate(f, o)
                     [] op = "GetExperiment" -> ApplyToGet(f, o)
                     [] OTHER -> ApplyToDelete(f, o)
         IN  ApplyAll(op, Tail(opts), o1)

\* if o.Namespace == "" { o.Namespace = "default" }
ResolveNamespace(o) ==
    IF o.Namespace = <<>> THEN [o EXCEPT !.Namespace = DefaultNamespace] ELSE o

\* the options of a call after the option loop and the namespace default
Options(op, opts) == ResolveNamespace(ApplyAll(op, opts, ZeroOptions))

----------------------------------------------------------------------------
(* Errors *)

NoError == [kind |-> "nil", status |-> 0]
ValidationError == [kind |-> "validation", status |-> 0]
TransportError == [kind |-> "transport", status |-> 0]
ReadError == [kind |-> "read", status |-> 0]
DecodeError == [kind |-> "decode", status |-> 0]

\* errors.Errorf("unexpected status code %d: %s", res.StatusCode, string(data))
StatusError(code) == [kind |-> "status", status |-> code]

----------------------------------------------------------------------------
(* The remote service: POST create, GET get, POST delete *)

CreatePath == "/api/2.0/mlflow/experiments/create"
GetPath == "/api/2.0/mlflow/experiments/get"
DeletePath == "/api/2.0/mlflow/experiments/delete"

StatusOK == 200
StatusNotFound == 404

\* an HTTP request as the client builds it
Request(method, path, id, name, location, elems, auth) ==
    [method |-> method, path |-> path, experiment_id |-> id, name |-> name,
     artifact_location |-> location, tags |-> elems, auth |-> auth]

NoRequest == Request("", "", "", <<>>, "", <<>>, FALSE)

\* the identifier the service gives the next experiment
NextID(st) == ToString(Cardinality(DOMAIN st) + 1)

IsActive(st, id) == id \in DOMAIN st /\ st[id].lifecycle_stage = "active"

\* the experiment the service returns for a stored id
StoredExperiment(st, id) ==
    [ExperimentID |-> id, Name |-> st[id].name,
     ArtifactLocation |-> st[id].artifact_location,
     CreationTime |-> st[id].creation_time,
     LastUpdatedTime |-> st[id].last_updated_time,
     LifecycleStage |-> st[id].lifecycle_stage,
     Tags |-> IF st[id].tags = <<>> THEN NilTags ELSE MakeTags(st[id].tags)]

Answer(status, id, e, st) ==
    [status |-> status, experiment_id |-> id, experiment |-> e, store |-> st]

\* create: stores the posted name and tags under a new id; a name that an
\* active experiment already has is refused
ServeCreate(st, req) ==
    IF \E id \in DOMAIN st : IsActive(st, id) /\ st[id].name = req.name
    THEN Answer(400, "", EmptyExperiment, st)
    ELSE LET id == NextID(st)
             rec == [name |-> req.name,
                     artifact_location |->
                         IF req.artifact_location = "" THEN "mlruns"
                         ELSE req.artifact_location,
                     tags |-> req.tags, creation_time |-> 1,
                     last_updated_time |-> 1, lifecycle_stage |-> "active"]
         IN  Answer(StatusOK, id, EmptyExperiment, st @@ (id :> rec))

\* get: echoes what is stored under the id
ServeGet(st, req) ==
    IF IsActive(st, req.experiment_id)
    THEN Answer(StatusOK, "", StoredExperiment(st, req.experiment_id), st)
    ELSE Answer(StatusNotFound, "", EmptyExperiment, st)

\* delete: marks the experiment deleted; a missing or deleted id is not found
ServeDelete(st, req) ==
    IF IsActive(st, req.experiment_id)
    THEN Answer(StatusOK, "", EmptyExperiment,
                [st EXCEPT ![req.experiment_id].lifecycle_stage = "deleted"])
    ELSE Answer(StatusNotFound, "", EmptyExperiment, st)

Serve(st, req) ==
    CASE req.path = CreatePath -> ServeCreate(st, req)
      [] req.path = GetPath -> ServeGet(st, req)
      [] OTHER -> ServeDelete(st, req)

\* what can go wrong between the client and the service
Faults ==
    {"none", "transport", "status500", "garbled", "unreadable", "noid"}

\* the outcome of httpClient.Do(req) under a fault: err != nil (transport),
\* or a response with a status, a body that can or cannot be read to its end,
\* and a text that is or is not the JSON the client expects
Respond(st, req, fault) ==
    LET a == Serve(st, req)
        down == fault = "status500"
    IN  [transport |-> fault = "transport",
         status |-> IF down THEN 500 ELSE a.status,
         readable |-> fault # "unreadable",
         decodable |-> fault # "garbled",
         experiment_id |-> IF fault = "noid" THEN "" ELSE a.experiment_id,
         experiment |-> a.experiment,
         store |-> IF down \/ fault = "transport" THEN st ELSE a.store]

----------------------------------------------------------------------------
(* The client *)

\* the call record of a goroutine that is in no call and has returned from none
NoCall ==
    [op |-> "none", opts |-> <<>>, before |-> EmptyExperiment,
     fn |-> "none", o |-> ZeroOptions, req |-> NoRequest,
     reqs |-> <<>>, resps |-> <<>>, bodies |-> <<>>,
     err |-> NoError, returned |-> FALSE]

\* the call record at the entry of op
Enter(op, opts, e) ==
    [NoCall EXCEPT !.op = op, !.opts = opts, !.before = e,
                   !.o = Options(op, opts)]

\* defer body.Close(), run when function fn returns: CreateExperiment and
\* GetExperiment defer it, DeleteExperiment has no such statement
DeferredClose(fn, bodies) ==
    IF fn \in {"CreateExperiment", "GetExperiment"}
    THEN SelectSeq(bodies, LAMBDA b : b # fn)
    ELSE bodies

\* the response bodies still open when the call op returns; the GetExperiment
\* that CreateExperiment ends with returns first
BodiesAtReturn(op, bodies) ==
    IF op = "CreateExperiment"
    THEN DeferredClose("CreateExperiment", DeferredClose("GetExperiment", bodies))
    ELSE DeferredClose(op, bodies)

\* the call record when the call returns err
Return(r, err) ==
    [r EXCEPT !.err = err, !.returned = TRUE, !.fn = "none",
              !.bodies = BodiesAtReturn(r.op, r.bodies)]

\* the request CreateExperiment posts: the name behind the namespace and the
\* caller's tags with the namespace tag set
CreateRequest(e, o, auth) ==
    Request("POST", CreatePath, "", SprintfName(o.Namespace, e.Name),
            e.ArtifactLocation,
            TagsSet(e.Tags, NamespaceKey, o.Namespace).elems, auth)

GetRequest(e, auth) == Request("GET", GetPath, e.ExperimentID, <<>>, "", <<>>, auth)

DeleteRequest(e, auth) ==
    Request("POST", DeletePath, e.ExperimentID, <<>>, "", <<>>, auth)

\* the caller's Experiment after the Decode of a get response into out,
\* out.DeepCopyInto(experiment) and the removal of the namespace prefix
Retrieved(out) ==
    LET e == DeepCopyInto(out)
        namespace == TagsGet(e.Tags, NamespaceKey)
    IN  IF namespace # <<>>
        THEN [e EXCEPT !.Name = TrimPrefix(e.Name, SprintfPrefix(namespace))]
        ELSE e

Authenticated == c.authenticator # "nil"

\* if experiment.Name == ""
MissingName(e) == e.Name = <<>>

\* the ExperimentID test left out
MissingExperimentIDNever(e) == FALSE

\* if experiment.ExperimentID == ""
MissingExperimentID(e) == e.ExperimentID = ""

\* res.StatusCode != http.StatusOK, negated
StatusAccepted(status) == status = StatusOK

\* the 404 test without its IgnoreMissing condition
DeleteAcceptedAnyNotFound(status, o) == status \in {StatusOK, StatusNotFound}

\* the two tests after which DeleteExperiment returns nil
DeleteAccepted(status, o) ==
    \/ status = StatusOK
    \/ status = StatusNotFound /\ o.IgnoreMissing

\* CreateExperiment, from its entry to the test of c.httpClient
CreateExperiment(g, opts) ==
    /\ pc[g] = "idle" /\ callsLeft > 0
    /\ callsLeft' = callsLeft - 1
    /\ LET e == experiment[g]
           r == Enter("CreateExperiment", opts, e)
       IN  IF MissingName(e)
           THEN /\ call' = [call EXCEPT ![g] = Return(r, ValidationError)]
                /\ UNCHANGED <<experiment, pc>>
           ELSE /\ call' = [call EXCEPT ![g] =
                        [r EXCEPT !.fn = "CreateExperiment",
                                  !.req = CreateRequest(e, r.o, Authenticated)]]
                /\ experiment' = [experiment EXCEPT ![g].Tags =
                        TagsAfterAliasedSet(e.Tags, NamespaceKey, r.o.Namespace)]
                /\ pc' = [pc EXCEPT ![g] = "check"]
    /\ UNCHANGED <<procs, c, store, tagVars, created>>

\* GetExperiment, from its entry to the test of c.httpClient
GetExperiment(g, opts) ==
    /\ pc[g] = "idle" /\ callsLeft > 0
    /\ callsLeft' = callsLeft - 1
    /\ LET e == experiment[g]
           r == Enter("GetExperiment", opts, e)
       IN  IF MissingExperimentID(e)
           THEN /\ call' = [call EXCEPT ![g] = Return(r, ValidationError)]
                /\ UNCHANGED pc
           ELSE /\ call' = [call EXCEPT ![g] =
                        [r EXCEPT !.fn = "GetExperiment",
                                  !.req = GetRequest(e, Authenticated)]]
                /\ pc' = [pc EXCEPT ![g] = "check"]
    /\ UNCHANGED <<procs, experiment, c, store, tagVars, created>>

\* DeleteExperiment, from its entry to the test of c.httpClient
DeleteExperiment(g, opts) ==
    /\ pc[g] = "idle" /\ callsLeft > 0
    /\ callsLeft' = callsLeft - 1
    /\ LET e == experiment[g]
           r == Enter("DeleteExperiment", opts, e)
       IN  IF MissingExperimentID(e)
           THEN /\ call' = [call EXCEPT ![g] = Return(r, ValidationError)]
                /\ UNCHANGED pc
           ELSE /\ call' = [call EXCEPT ![g] =
                        [r EXCEPT !.fn = "DeleteExperiment",
                                  !.req = DeleteRequest(e, Authenticated)]]
                /\ pc' = [pc EXCEPT ![g] = "check"]
    /\ UNCHANGED <<procs, experiment, c, store, tagVars, created>>

\* if c.httpClient == nil
CheckHTTPClient(g) ==
    /\ pc[g] = "check"
    /\ pc' = [pc EXCEPT ![g] = IF c.httpClient = "nil" THEN "set" ELSE "do"]
    /\ UNCHANGED <<procs, experiment, c, store, call, callsLeft, tagVars, created>>

\* c.httpClient = http.DefaultClient
SetHTTPClient(g) ==
    /\ pc[g] = "set"
    /\ c' = [c EXCEPT !.httpClient = "http.DefaultClient"]
    /\ pc' = [pc EXCEPT ![g] = "do"]
    /\ UNCHANGED <<procs, experiment, store, call, callsLeft, tagVars, created>>

\* what the call record keeps of a response
Received(r) ==
    [status |-> r.status, readable |-> r.readable, decodable |-> r.decodable,
     experiment_id |-> r.experiment_id]

\* Do that sends the request a second time
SentRetried(rec, r) ==
    [rec EXCEPT !.reqs = @ \o <<rec.req, rec.req>>,
                !.resps = Append(@, Received(r)),
                !.bodies = Append(@, rec.fn)]

\* the call record after httpClient.Do(req) sent the request and fn holds the
\* response body
Sent(rec, r) ==
    [rec EXCEPT !.reqs = Append(@, rec.req), !.resps = Append(@, Received(r)),
                !.bodies = Append(@, rec.fn)]

\* the error of a response whose status is not accepted: io.ReadAll(body),
\* then the status error
UnexpectedStatus(r) == IF r.readable THEN StatusError(r.status) ELSE ReadError

\* CreateExperiment from c.httpClient.Do(req) on: the POST, the decoding of
\* the identifier, and the entry of the GetExperiment it ends with
DoCreate(g) ==
    /\ pc[g] = "do" /\ call[g].fn = "CreateExperiment"
    /\ \E fault \in Faults :
        LET rec == call[g]
            r == Respond(store, rec.req, fault)
            got == Sent(rec, r)
            e == [experiment[g] EXCEPT !.ExperimentID = r.experiment_id]
        IN  IF r.transport
            THEN /\ call' = [call EXCEPT ![g] =
                        Return([rec EXCEPT !.reqs = Append(@, rec.req)], TransportError)]
                 /\ pc' = [pc EXCEPT ![g] = "idle"]
                 /\ UNCHANGED <<experiment, store, created>>
            ELSE /\ store' = r.store
                 /\ IF ~StatusAccepted(r.status)
                    THEN /\ call' = [call EXCEPT ![g] = Return(got, UnexpectedStatus(r))]
                         /\ pc' = [pc EXCEPT ![g] = "idle"]
                         /\ UNCHANGED <<experiment, created>>
                    ELSE IF ~(r.readable /\ r.decodable)
                    THEN /\ call' = [call EXCEPT ![g] = Return(got, DecodeError)]
                         /\ pc' = [pc EXCEPT ![g] = "idle"]
                         /\ UNCHANGED <<experiment, created>>
                    ELSE /\ experiment' = [experiment EXCEPT ![g] = e]
                         /\ created' = IF MissingExperimentID(e) THEN created
                                        ELSE created @@ (e.ExperimentID :> rec.before.Name)
                         /\ IF MissingExperimentID(e)
                            THEN /\ call' = [call EXCEPT ![g] = Return(got, ValidationError)]
                                 /\ pc' = [pc EXCEPT ![g] = "idle"]
                            ELSE /\ call' = [call EXCEPT ![g] =
                                        [got EXCEPT !.fn = "GetExperiment",
                                                    !.req = GetRequest(e, Authenticated)]]
                                 /\ pc' = [pc EXCEPT ![g] = "check"]
    /\ UNCHANGED <<procs, c, callsLeft, tagVars>>

\* GetExperiment from c.httpClient.Do(req) on
DoGet(g) ==
    /\ pc[g] = "do" /\ call[g].fn = "GetExperiment"
    /\ \E fault \in Faults \ {"noid"} :
        LET rec == call[g]
            r == Respond(store, rec.req, fault)
            got == Sent(rec, r)
        IN  IF r.transport
            THEN /\ call' = [call EXCEPT ![g] =
                        Return([rec EXCEPT !.reqs = Append(@, rec.req)], TransportError)]
                 /\ UNCHANGED <<experiment, store>>
            ELSE /\ store' = r.store
                 /\ IF ~StatusAccepted(r.status)
                    THEN /\ call' = [call EXCEPT ![g] = Return(got, UnexpectedStatus(r))]
                         /\ UNCHANGED experiment
                    ELSE IF ~(r.readable /\ r.decodable)
                    THEN /\ call' = [call EXCEPT ![g] = Return(got, DecodeError)]
                         /\ UNCHANGED experiment
                    ELSE /\ call' = [call EXCEPT ![g] = Return(got, NoError)]
                         /\ experiment' = [experiment EXCEPT ![g] = Retrieved(r.experiment)]
    /\ pc' = [pc EXCEPT ![g] = "idle"]
    /\ UNCHANGED <<procs, c, callsLeft, tagVars, created>>

\* DeleteExperiment from c.httpClient.Do(req) on
DoDelete(g) ==
    /\ pc[g] = "do" /\ call[g].fn = "DeleteExperiment"
    /\ \E fault \in Faults \ {"noid"} :
        LET rec == call[g]
            r == Respond(store, rec.req, fault)
            got == Sent(rec, r)
        IN  IF r.transport
            THEN /\ call' = [call EXCEPT ![g] =
                        Return([rec EXCEPT !.reqs = Append(@, rec.req)], TransportError)]
                 /\ UNCHANGED <<experiment, store>>
            ELSE /\ store' = r.store
                 /\ IF DeleteAccepted(r.status, rec.o)
                    THEN /\ call' = [call EXCEPT ![g] = Return(got, NoError)]
                         /\ experiment' = [experiment EXCEPT ![g] =
                                DeepCopyInto(EmptyExperiment)]
                    ELSE /\ call' = [call EXCEPT ![g] = Return(got, UnexpectedStatus(r))]
                         /\ UNCHANGED experiment
    /\ pc' = [pc EXCEPT ![g] = "idle"]
    /\ UNCHANGED <<procs, c, callsLeft, tagVars, created>>

----------------------------------------------------------------------------
(* The caller *)

\* names, namespaces and identifiers the caller uses
Names == {<<"a">>, <<"n", "/", "a">>}
Namespaces == {<<>>, <<"n">>}
TagValues == {<<"m">>, <<"n">>}
TagKeys == {NamespaceKey, "k", "j"}

CreateOptionLists == {<<>>} \cup {<<InNamespace(ns)>> : ns \in Namespaces}
GetOptionLists == CreateOptionLists
DeleteOptionLists ==
    {<<>>, <<InNamespace(<<"n">>)>>}
    \cup {<<IgnoreMissing(b)>> : b \in BOOLEAN}
    \cup {<<InNamespace(<<"n">>), IgnoreMissing(TRUE)>>}

\* the ids the caller may know of: those the service gave out, and the next
KnownIDs == {ToString(i) : i \in 1..(Cardinality(DOMAIN store) + 1)}

\* a setter changes the caller's Experiment between two calls: the value is
\* one no call has yet seen, so the record of the last call is dropped
Prepare(g, e) ==
    /\ pc[g] = "idle" /\ callsLeft > 0
    /\ e # experiment[g]
    /\ experiment' = [experiment EXCEPT ![g] = e]
    /\ call' = [call EXCEPT ![g] = NoCall]
    /\ UNCHANGED <<procs, c, store, pc, callsLeft, tagVars, created>>

\* (e *Experiment) SetName(name)
SetName(g) ==
    \E name \in Names : Prepare(g, [experiment[g] EXCEPT !.Name = name])

\* (e *Experiment) SetExperimentID(id)
SetExperimentID(g) ==
    \E id \in KnownIDs : Prepare(g, [experiment[g] EXCEPT !.ExperimentID = id])

\* (e *Experiment) SetNamespace(namespace)
SetNamespace(g) ==
    \E ns \in {<<"m">>} :
        Prepare(g, [experiment[g] EXCEPT
                        !.Tags = TagsSet(@, NamespaceKey, ns)])

\* t.Set(key, value) on the Tags value t
Set ==
    /\ Len(sets) < MaxSets
    /\ \E key \in TagKeys, value \in TagValues :
        /\ t' = TagsSet(t, key, value)
        /\ sets' = Append(sets, <<key, value>>)
    /\ UNCHANGED <<t0, clientVars>>

----------------------------------------------------------------------------
(* Specifications *)

\* &client{address: ...}, with or without a transport and an authenticator
Clients ==
    [address : {"http://localhost:5000"},
     httpClient : {"nil", "custom"},
     authenticator : {"nil", "custom"}]

\* the service holds nothing, or an experiment "a" that a client created
\* earlier in the default namespace
EmptyStore == <<>>
OneExperiment ==
    "1" :> [name |-> SprintfName(DefaultNamespace, <<"a">>),
            artifact_location |-> "mlruns",
            tags |-> <<Tag(NamespaceKey, DefaultNamespace)>>,
            creation_time |-> 1, last_updated_time |-> 1,
            lifecycle_stage |-> "active"]

\* one caller, who starts from Experiment{} and prepares it with the setters;
\* the client is built as the tests build it, without an authenticator
Init ==
    /\ procs = {1}
    /\ experiment = [g \in procs |-> EmptyExperiment]
    /\ c \in {x \in Clients : x.authenticator = "nil"}
    /\ store = EmptyStore \/ store = OneExperiment
    /\ created = <<>>
    /\ call = [g \in procs |-> NoCall]
    /\ pc = [g \in procs |-> "idle"]
    /\ callsLeft = MaxCalls
    /\ t = NilTags /\ t0 = NilTags /\ sets = <<>>

Next ==
    \/ \E g \in procs : SetName(g)
    \/ \E g \in procs : SetExperimentID(g)
    \/ \E g \in procs : SetNamespace(g)
    \/ \E g \in procs, opts \in CreateOptionLists : CreateExperiment(g, opts)
    \/ \E g \in procs, opts \in GetOptionLists : GetExperiment(g, opts)
    \/ \E g \in procs, opts \in DeleteOptionLists : DeleteExperiment(g, opts)
    \/ \E g \in procs : CheckHTTPClient(g)
    \/ \E g \in procs : SetHTTPClient(g)
    \/ \E g \in procs : DoCreate(g)
    \/ \E g \in procs : DoGet(g)
    \/ \E g \in procs : DoDelete(g)

Spec == Init /\ [][Next]_vars

\* two goroutines share the client, each with an Experiment of its own
InitConc ==
    /\ procs = {1, 2}
    /\ experiment \in [procs ->
            {[EmptyExperiment EXCEPT !.Name = <<"a">>],
             [EmptyExperiment EXCEPT !.ExperimentID = "1"]}]
    /\ c \in Clients
    /\ store = EmptyStore \/ store = OneExperiment
    /\ created = <<>>
    /\ call = [g \in procs |-> NoCall]
    /\ pc = [g \in procs |-> "idle"]
    /\ callsLeft = MaxCalls
    /\ t = NilTags /\ t0 = NilTags /\ sets = <<>>

NextConc ==
    \/ \E g \in procs, opts \in CreateOptionLists : CreateExperiment(g, opts)
    \/ \E g \in procs, opts \in GetOptionLists : GetExperiment(g, opts)
    \/ \E g \in procs, opts \in DeleteOptionLists : DeleteExperiment(g, opts)
    \/ \E g \in procs : CheckHTTPClient(g)
    \/ \E g \in procs : SetHTTPClient(g)
    \/ \E g \in procs : DoCreate(g)
    \/ \E g \in procs : DoGet(g)
    \/ \E g \in procs : DoDelete(g)

SpecConc == InitConc /\ [][NextConc]_vars

\* the Tags sequences in which every key occurs at most once
RECURSIVE SeqsUpTo(_, _)
SeqsUpTo(S, n) ==
    IF n = 0 THEN {<<>>}
    ELSE LET shorter == SeqsUpTo(S, n - 1)
         IN  shorter \cup {Append(s, x) : s \in shorter, x \in S}

UniqueKeys(elems) ==
    \A i, j \in 1..Len(elems) : elems[i].Key = elems[j].Key => i = j

UniqueTags ==
    {NilTags} \cup
    {MakeTags(s) : s \in {u \in SeqsUpTo({Tag(k, v) : k \in TagKeys, v \in TagValues},
                                         MaxTags) : UniqueKeys(u)}}

\* Set applied to a Tags value on its own
InitTags ==
    /\ procs = {1}
    /\ experiment = [g \in procs |-> EmptyExperiment]
    /\ c = [address |-> "http://localhost:5000", httpClient |-> "nil",
            authenticator |-> "nil"]
    /\ store = EmptyStore
    /\ created = <<>>
    /\ call = [g \in procs |-> NoCall]
    /\ pc = [g \in procs |-> "idle"]
    /\ callsLeft = 0
    /\ t \in UniqueTags /\ t0 = t /\ sets = <<>>

NextTags == Set

SpecTags == InitTags /\ [][NextTags]_vars

----------------------------------------------------------------------------
(* Properties *)

\* the namespace a call asks for, read off its option list
RequestedNamespace(opts) ==
    LET given == {i \in 1..Len(opts) :
                      opts[i].kind = "InNamespace" /\ opts[i].ns # <<>>}
    IN  IF given = {} THEN DefaultNamespace
        ELSE opts[CHOOSE i \in given : \A j \in given : j <= i].ns

\* whether a call was given IgnoreMissing(true)
IgnoresMissing(opts) == \E i \in 1..Len(opts) : opts[i] = IgnoreMissing(TRUE)

\* g's call has returned and was op
ReturnedFrom(g, op) == call[g].returned /\ call[g].op = op

\* g's DeleteExperiment call, made with an ExperimentID, has returned after
\* the service answered
DeleteAnswered(g) ==
    /\ ReturnedFrom(g, "DeleteExperiment")
    /\ call[g].before.ExperimentID # ""
    /\ Len(call[g].resps) = 1

C3_DeleteResetsToZero ==
    \A g \in procs :
        (ReturnedFrom(g, "DeleteExperiment") /\ call[g].err = NoError)
            => DeepEqual(experiment[g], EmptyExperiment)

\* the Tags hold a Tag with the key and the value
HasTag(tags, key, value) ==
    \E i \in 1..Len(tags.elems) : tags.elems[i] = Tag(key, value)

\* C4 as stated: after CreateExperiment returns nil in namespace N, for every
\* name, the caller's Tags hold metadata.namespace = N and the caller's Name
\* does not begin with "N/".
C4_NamespaceTaggingAsStated ==
    \A g \in procs :
        (ReturnedFrom(g, "CreateExperiment") /\ call[g].err = NoError) =>
            LET N == RequestedNamespace(call[g].opts)
            IN  /\ HasTag(experiment[g].Tags, NamespaceKey, N)
                /\ ~HasPrefix(experiment[g].Name, N \o <<"/">>)

\* C4 amended: the same for every name that does not itself begin with
\* "N/"; one prefix is added on the wire and one is removed, so a name that
\* begins with "N/" comes back beginning with "N/".
C4_NamespaceTagging ==
    \A g \in procs :
        (ReturnedFrom(g, "CreateExperiment") /\ call[g].err = NoError) =>
            LET N == RequestedNamespace(call[g].opts)
            IN  /\ HasTag(experiment[g].Tags, NamespaceKey, N)
                /\ ~HasPrefix(call[g].before.Name, N \o <<"/">>)
                       => ~HasPrefix(experiment[g].Name, N \o <<"/">>)

\* "a" was created in namespace "n" by a caller whose Tags named another
\* namespace
C4_Witness ==
    \E g \in procs :
        /\ ReturnedFrom(g, "CreateExperiment") /\ call[g].err = NoError
        /\ call[g].opts = <<InNamespace(<<"n">>)>>
        /\ call[g].before.Name = <<"a">>
        /\ HasTag(call[g].before.Tags, NamespaceKey, <<"m">>)

\* C5: a GetExperiment that returns nil for an id that CreateExperiment was
\* given by the service leaves in Name the name the caller supplied to that
\* CreateExperiment, whatever Namespace option the GetExperiment has.
C5_NameRoundTrip ==
    \A g \in procs :
        (/\ ReturnedFrom(g, "GetExperiment") /\ call[g].err = NoError
         /\ call[g].before.ExperimentID \in DOMAIN created)
            => experiment[g].Name = created[call[g].before.ExperimentID]

\* "n/a" was created in the default namespace and read back by a
\* GetExperiment in namespace "n"
C5_Witness ==
    \E g \in procs :
        /\ ReturnedFrom(g, "GetExperiment") /\ call[g].err = NoError
        /\ call[g].before.ExperimentID \in DOMAIN created
        /\ created[call[g].before.ExperimentID] = <<"n", "/", "a">>
        /\ call[g].opts = <<InNamespace(<<"n">>)>>
        /\ HasTag(experiment[g].Tags, NamespaceKey, DefaultNamespace)

NoDuplicates(q) == \A i, j \in 1..Len(q) : q[i] = q[j] => i = j

C7_BodiesReleased ==
    \A g \in procs : call[g].returned => call[g].bodies = <<>>

\* the key was given to Set at least once
WasSet(key) == \E i \in 1..Len(sets) : sets[i][1] = key

\* the value of the most recent Set of the key
LastSetValue(key) ==
    LET at == {i \in 1..Len(sets) : sets[i][1] = key}
    IN  sets[CHOOSE i \in at : \A j \in at : j <= i][2]

\* C8: starting from Tags in which every key occurs at most once, after any
\* sequence of Set calls every key still occurs at most once, a key that was
\* set occurs exactly once and Get returns the value of its most recent Set,
\* the Tags that were there before are at the positions they had, and those
\* whose key was not set have the values they had.
C8_TagUpsert ==
    /\ UniqueKeys(t.elems)
    /\ \A key \in TagKeys :
           WasSet(key) =>
               /\ Cardinality({i \in 1..Len(t.elems) : t.elems[i].Key = key}) = 1
               /\ HasTag(t, key, LastSetValue(key))
               /\ TagsGet(t, key) = LastSetValue(key)
    /\ Len(t.elems) >= Len(t0.elems)
    /\ \A i \in 1..Len(t0.elems) :
           /\ t.elems[i].Key = t0.elems[i].Key
           /\ ~WasSet(t0.elems[i].Key) => t.elems[i] = t0.elems[i]

\* a key that was there was set twice, to two values, among two Tags
C8_Witness ==
    /\ Len(sets) = 2 /\ Len(t0.elems) = 2
    /\ sets[1][1] = sets[2][1] /\ sets[1][2] # sets[2][2]
    /\ TagsContains(t0, sets[1][1])
    /\ TagsGet(t0, sets[1][1]) # sets[1][2]

\* C9: whenever CreateExperiment returns an error the caller's Experiment
\* holds the field values it had before the call.
C9_NoPartialSuccess ==
    \A g \in procs :
        (ReturnedFrom(g, "CreateExperiment") /\ call[g].err # NoError)
            => experiment[g] = call[g].before

\* the client field a goroutine at this position accesses next, and how
NextAccess(g) ==
    CASE pc[g] = "check" -> [field |-> "httpClient", write |-> FALSE]
      [] pc[g] = "set" -> [field |-> "httpClient", write |-> TRUE]
      [] pc[g] = "do" -> [field |-> "httpClient", write |-> FALSE]
      [] OTHER -> [field |-> "none", write |-> FALSE]

\* C10: no call writes a field of the client, so no two concurrent calls
\* are ever about to access the same client field with one of them writing.
C10_NoConflictingAccess ==
    \A g, h \in procs :
        (g # h /\ NextAccess(g).field # "none")
            => ~(/\ NextAccess(g).field = NextAccess(h).field
                 /\ NextAccess(g).write \/ NextAccess(h).write)

====
